---- MODULE Spec2Model ----
(***************************************************************************)
(* MiniVenmo (src/main.py): users with a balance, an optional credit card, *)
(* a friend list and a feed; payments resolved from the balance or by the  *)
(* card; friendship logs.                                                  *)
(*                                                                         *)
(* Objects.  A User object is an index into the sequences username,        *)
(* balance, credit_card_number, feed and friends (object identity = index; *)
(* two objects may carry the same username).  A FeedLog object (Payment or *)
(* FriendshipLog) is an index into records; its uuid4 id is modelled by    *)
(* that index, which is fresh for every object created.                    *)
(*                                                                         *)
(* Numbers.  Amounts are Python floats.  The model draws them from small   *)
(* sets of integers, on which float arithmetic and comparison are exact;   *)
(* IEEE NaN and infinities are not in the amount domain.  A str argument   *)
(* is modelled with what float() makes of it.                              *)
(*                                                                         *)
(* Specifications.  Spec: the single-threaded program, one action per      *)
(* call.  SpecFaulty: Spec with a card processor that may raise.           *)
(* SpecThreads: pay_with_balance run by several threads with no lock, its  *)
(* balance test, the load and the store of the debit and the load and the  *)
(* store of the credit as separate steps.                                  *)
(***************************************************************************)
EXTENDS Integers, Sequences, FiniteSets, TLC

VARIABLES username, balance, credit_card_number, feed, friends,
          records, last, card_calls, nops, run_pc, processor,
          threads, overlapped, start_balance

state == <<username, balance, credit_card_number, feed, friends, records>>
vars == <<username, balance, credit_card_number, feed, friends, records,
          last, card_calls, nops, run_pc, processor,
          threads, overlapped, start_balance>>

\* ---------------------------------------------------------------- bounds
MaxUsers == 3
MaxOps == 5
NumThreads == 2

\* ---------------------------------------------------------------- inputs
None == "None"

Float(n) == [kind |-> "float", parses |-> TRUE, val |-> n]
Str(ok, n) == [kind |-> "str", parses |-> ok, val |-> n]

\* amount arguments: floats -5.0, 0.0, 5.0, 10.0, the str "5.0", the str "five"
AmountArgs == {Float(0 - 5), Float(0), Float(5), Float(10),
               Str(TRUE, 5), Str(FALSE, 0)}

\* card arguments: the two whitelisted numbers and one that is not
CardArgs == {"4111111111111111", "4242424242424242", "1234"}

\* username arguments: the text and, character by character, what the
\* pattern of _is_valid_username reads of it: a character of the class
\* [A-Za-z0-9_-], a newline, or any other character
InClass == "class"
Newline == "newline"
OtherChar == "other"
Word(n) == [i \in 1..n |-> InClass]
Name(t, cs) == [text |-> t, chars |-> cs]
UsernameArgs == {Name("Bobby", Word(5)),
                 Name("Bobby\n", Word(5) \o <<Newline>>),
                 Name("Invalid Bobby!",
                      Word(7) \o <<OtherChar>> \o Word(5) \o <<OtherChar>>),
                 Name("Bob", Word(3))}

NoteArgs == {"Coffee"}

\* ------------------------------------------------------- error constants
OK == "ok"
SAME_USER_ERROR == "User cannot pay themselves."
INSUFFICIENT_BALANCE_ERROR == "Insufficient balance to make the payment."
INVALID_AMOUNT_ERROR == "Amount must be a non-negative number."
INVALID_AMOUNT_NUMBER_ERROR == "Amount must be a valid number."
NO_CREDIT_CARD_ERROR == "Must have a credit card to make a payment."
MULTIPLE_CREDIT_CARDS_ERROR == "Only one credit card per user!"
INVALID_CREDIT_CARD == "CreditCardException()"
VALUE_ERROR == "ValueError"
TYPE_ERROR == "TypeError"
USERNAME_ERROR == "Username not valid."
CHARGE_ERROR == "card processor failure"

STATUS_ADDED == "added"
STATUS_REMOVED == "removed"

Users == 1..Len(username)

\* ------------------------------------------------------------ conversions
\* float(amount): a float is itself, a str parses or raises ValueError
float(x) ==
    IF x.kind = "float" \/ x.parses
    THEN [err |-> OK, val |-> x.val]
    ELSE [err |-> VALUE_ERROR, val |-> 0]

\* f"{amount:.2f}" of an integral float
Format2f(n) == IF n < 0 THEN "-" \o ToString(0 - n) \o ".00" ELSE ToString(n) \o ".00"

\* -------------------------------------------------------------- FeedLogs
Payment(amount, actor, target, note) ==
    [cls |-> "Payment", amount |-> amount, actor |-> actor,
     target |-> target, note |-> note]

FriendshipLog(user1, user2, status) ==
    [cls |-> "FriendshipLog", user1 |-> user1, user2 |-> user2,
     status |-> status]

get_feed_msg(r) ==
    IF r.cls = "Payment"
    THEN username[r.actor] \o " paid " \o username[r.target] \o " $"
         \o Format2f(r.amount) \o " for " \o r.note
    ELSE username[r.user1] \o " " \o r.status \o " " \o username[r.user2]
         \o " as a friend."

\* ------------------------------------------------------------ validation
_is_valid_credit_card(n) == n \in {"4111111111111111", "4242424242424242"}

\* re.match("^[A-Za-z0-9_\\-]{4,15}$", username): 4 to 15 characters of the
\* class from the start, then '$', which matches at the end of the string
\* and also just before a newline that is the string's last character
_is_valid_username(name) ==
    LET cs == name.chars
        n == Len(cs)
        body == IF n > 0 /\ cs[n] = Newline THEN SubSeq(cs, 1, n - 1) ELSE cs
    IN  /\ \A i \in 1..Len(body) : body[i] = InClass
        /\ Len(body) >= 4
        /\ Len(body) <= 15

\* the card processor: the stub of the source returns; the external
\* collaborator it stands for may raise
_charge_credit_card(raises) == IF raises THEN CHARGE_ERROR ELSE OK

\* variants of the amount test: zero let through; only zero refused
NotPositive_Negative(a) == a < 0
NotPositive_Zero(a) == a = 0

\* amount <= 0.0
NotPositive(a) == a <= 0

\* variants of the routing test: strict; any non-negative balance
BalanceCovers_Strict(b, a) == b > a
BalanceCovers_NonNegative(b, a) == b >= 0

\* self.balance >= amount, the routing test of pay
BalanceCovers(b, a) == b >= a

\* variant of the guard that only refuses an empty balance
BalanceShort_Empty(b, a) == b <= 0

\* self.balance < amount, the guard of pay_with_balance
BalanceShort(b, a) == b < a

\* variants of the debit: none; applied twice
Debit_None(b, a) == b
Debit_Twice(b, a) == b - a - a

\* self.balance -= amount
Debit(b, a) == b - a

\* ------------------------------------------------------------ operations
\* Each operation is a function of the current state and its arguments to
\* an outcome: err, and the values of the fields it may have changed.

\* variant of add_to_balance that assigns the amount instead of adding it
add_to_balance_Assign(b, x) ==
    LET f == float(x) IN
    IF f.err # OK THEN [err |-> VALUE_ERROR, balance |-> b]
    ELSE IF NotPositive(f.val) THEN [err |-> VALUE_ERROR, balance |-> b]
    ELSE [err |-> OK, balance |-> f.val]

\* variant of add_to_balance that adds the amount before it validates it
add_to_balance_AddFirst(b, x) ==
    LET f == float(x) IN
    IF f.err # OK THEN [err |-> VALUE_ERROR, balance |-> b]
    ELSE IF NotPositive(f.val) THEN [err |-> VALUE_ERROR, balance |-> b + f.val]
    ELSE [err |-> OK, balance |-> b + f.val]

\* add_to_balance on a balance b
add_to_balance(b, x) ==
    LET f == float(x) IN
    IF f.err # OK THEN [err |-> VALUE_ERROR, balance |-> b]
    ELSE IF NotPositive(f.val) THEN [err |-> VALUE_ERROR, balance |-> b]
    ELSE [err |-> OK, balance |-> b + f.val]

\* variant of add_credit_card without the one-card guard
add_credit_card_Replace(c, n) ==
    IF _is_valid_credit_card(n) THEN [err |-> OK, card |-> n]
    ELSE [err |-> INVALID_CREDIT_CARD, card |-> c]

add_credit_card(c, n) ==
    IF c # None THEN [err |-> MULTIPLE_CREDIT_CARDS_ERROR, card |-> c]
    ELSE IF _is_valid_credit_card(n) THEN [err |-> OK, card |-> n]
    ELSE [err |-> INVALID_CREDIT_CARD, card |-> c]

Raise(e) == [err |-> e, balance |-> balance, records |-> records, ret |-> 0]

\* variant of pay_with_balance that tests the amount before the users
pay_with_balance_AmountFirst(u, t, x, note) ==
    IF x.kind = "str" THEN Raise(TYPE_ERROR)
    ELSE IF NotPositive(x.val) THEN Raise(INVALID_AMOUNT_ERROR)
    ELSE IF username[u] = username[t] THEN Raise(SAME_USER_ERROR)
    ELSE IF BalanceShort(balance[u], x.val) THEN Raise(INSUFFICIENT_BALANCE_ERROR)
    ELSE LET b1 == [balance EXCEPT ![u] = Debit(@, x.val)]
             payment == Payment(x.val, u, t, note)
             cr == add_to_balance(b1[t], x)
         IN  [err |-> cr.err,
              balance |-> [b1 EXCEPT ![t] = cr.balance],
              records |-> Append(records, payment),
              ret |-> IF cr.err = OK THEN Len(records) + 1 ELSE 0]

pay_with_balance(u, t, x, note) ==
    IF username[u] = username[t] THEN Raise(SAME_USER_ERROR)
    ELSE IF x.kind = "str" THEN Raise(TYPE_ERROR)
    ELSE IF NotPositive(x.val) THEN Raise(INVALID_AMOUNT_ERROR)
    ELSE IF BalanceShort(balance[u], x.val) THEN Raise(INSUFFICIENT_BALANCE_ERROR)
    ELSE LET b1 == [balance EXCEPT ![u] = Debit(@, x.val)]
             payment == Payment(x.val, u, t, note)
             cr == add_to_balance(b1[t], x)
         IN  [err |-> cr.err,
              balance |-> [b1 EXCEPT ![t] = cr.balance],
              records |-> Append(records, payment),
              ret |-> IF cr.err = OK THEN Len(records) + 1 ELSE 0]

\* variant of pay_with_card that looks for the card before it compares
\* the users
pay_with_card_CardFirst(u, t, x, note, raises) ==
    LET f == float(x) IN
    IF f.err # OK THEN Raise(VALUE_ERROR)
    ELSE IF credit_card_number[u] = None THEN Raise(NO_CREDIT_CARD_ERROR)
    ELSE IF username[u] = username[t] THEN Raise(SAME_USER_ERROR)
    ELSE IF NotPositive(f.val) THEN Raise(INVALID_AMOUNT_ERROR)
    ELSE IF _charge_credit_card(raises) # OK THEN Raise(CHARGE_ERROR)
    ELSE LET payment == Payment(f.val, u, t, note)
             cr == add_to_balance(balance[t], Float(f.val))
         IN  [err |-> cr.err,
              balance |-> [balance EXCEPT ![t] = cr.balance],
              records |-> Append(records, payment),
              ret |-> IF cr.err = OK THEN Len(records) + 1 ELSE 0]

pay_with_card(u, t, x, note, raises) ==
    LET f == float(x) IN
    IF f.err # OK THEN Raise(VALUE_ERROR)
    ELSE IF username[u] = username[t] THEN Raise(SAME_USER_ERROR)
    ELSE IF NotPositive(f.val) THEN Raise(INVALID_AMOUNT_ERROR)
    ELSE IF credit_card_number[u] = None THEN Raise(NO_CREDIT_CARD_ERROR)
    ELSE IF _charge_credit_card(raises) # OK THEN Raise(CHARGE_ERROR)
    ELSE LET payment == Payment(f.val, u, t, note)
             cr == add_to_balance(balance[t], Float(f.val))
         IN  [err |-> cr.err,
              balance |-> [balance EXCEPT ![t] = cr.balance],
              records |-> Append(records, payment),
              ret |-> IF cr.err = OK THEN Len(records) + 1 ELSE 0]

\* variants of the feed appends: the payer's feed only; at the front
FeedAppendBoth_PayerOnly(f, u, t, id) == [f EXCEPT ![u] = Append(@, id)]
FeedAppendBoth_Front(f, u, t, id) ==
    LET f1 == [f EXCEPT ![u] = <<id>> \o @]
    IN  [f1 EXCEPT ![t] = <<id>> \o @]

\* self.feed.append(payment); target.feed.append(payment)
FeedAppendBoth(f, u, t, id) ==
    LET f1 == [f EXCEPT ![u] = Append(@, id)]
    IN  [f1 EXCEPT ![t] = Append(@, id)]

\* pay: the outcome also carries the path taken and the feeds
pay(u, t, x, note, raises) ==
    LET f == float(x)
        fail(e) == [err |-> e, path |-> "none", balance |-> balance,
                    records |-> records, feed |-> feed, ret |-> 0]
    IN
    IF f.err # OK THEN fail(INVALID_AMOUNT_NUMBER_ERROR)
    ELSE IF NotPositive(f.val) THEN fail(INVALID_AMOUNT_ERROR)
    ELSE LET viaBalance == BalanceCovers(balance[u], f.val)
             r == IF viaBalance
                  THEN pay_with_balance(u, t, Float(f.val), note)
                  ELSE pay_with_card(u, t, Float(f.val), note, raises)
         IN  [err |-> r.err,
              path |-> IF viaBalance THEN "balance" ELSE "card",
              balance |-> r.balance,
              records |-> r.records,
              feed |-> IF r.err = OK THEN FeedAppendBoth(feed, u, t, r.ret) ELSE feed,
              ret |-> r.ret]

retrieve_feed(u) == [i \in 1..Len(feed[u]) |-> get_feed_msg(records[feed[u][i]])]

\* ---------------------------------------------------------------- calls
\* the record of the call just made
Call(op, u, t, x, res, path, ret, out) ==
    [op |-> op, self |-> u, target |-> t, amount |-> x, number |-> None,
     result |-> res, path |-> path, ret |-> ret, out |-> out]

NoAmount == Float(0)

\* of a call that raised, the record keeps the operation, the exception
\* and, for pay, the path it had taken
Raised(op, res, path) == Call(op, 0, 0, NoAmount, res, path, 0, <<>>)

\* the record of a call of op with these arguments and this outcome
Outcome(op, u, t, x, res, path, ret) ==
    IF res = OK THEN Call(op, u, t, x, res, path, ret, <<>>)
    ELSE Raised(op, res, path)

Init ==
    /\ username = <<>>
    /\ balance = <<>>
    /\ credit_card_number = <<>>
    /\ feed = <<>>
    /\ friends = <<>>
    /\ records = <<>>
    /\ last = Call("init", 0, 0, NoAmount, OK, "none", 0, <<>>)
    /\ card_calls = <<>>
    /\ nops = 0
    /\ run_pc = "idle"
    /\ processor = "stub"
    /\ threads = <<>>
    /\ overlapped = FALSE
    /\ start_balance = <<>>

Idle == run_pc = "idle" /\ nops < MaxOps

Step ==
    /\ nops' = nops + 1
    /\ UNCHANGED <<run_pc, processor, threads, overlapped, start_balance>>

\* whether the card processor raises on this call
ChargeRaises == IF processor = "faulty" THEN BOOLEAN ELSE {FALSE}

NewUserFields(name, b, c) ==
    /\ username' = Append(username, name.text)
    /\ balance' = Append(balance, b)
    /\ credit_card_number' = Append(credit_card_number, c)
    /\ feed' = Append(feed, <<>>)
    /\ friends' = Append(friends, <<>>)

\* User(username)
NewUser(name) ==
    /\ Idle /\ Step
    /\ Len(username) < MaxUsers
    /\ IF _is_valid_username(name)
       THEN /\ NewUserFields(name, 0, None)
            /\ card_calls' = Append(card_calls, 0)
            /\ last' = Call("User", Len(username) + 1, 0, NoAmount, OK, "none", 0, <<>>)
       ELSE /\ UNCHANGED <<username, balance, credit_card_number, feed, friends, card_calls>>
            /\ last' = Raised("User", USERNAME_ERROR, "none")
    /\ UNCHANGED records

\* MiniVenmo.create_user (called by MiniVenmo.run).  Its outcome: the user is returned only when the
\* constructor, add_to_balance and add_credit_card all return
create_user(name, x, n) ==
    LET b == add_to_balance(0, x)
        c == add_credit_card(None, n)
    IN  IF ~_is_valid_username(name) THEN [err |-> USERNAME_ERROR, balance |-> 0, card |-> None]
        ELSE IF b.err # OK THEN [err |-> b.err, balance |-> 0, card |-> None]
        ELSE [err |-> c.err, balance |-> b.balance, card |-> c.card]

DoCreateUser(name, x, n) ==
    LET r == create_user(name, x, n) IN
    /\ IF r.err = OK
       THEN /\ NewUserFields(name, r.balance, r.card)
            /\ card_calls' = Append(card_calls, 1)
            /\ last' = [Call("create_user", Len(username) + 1, 0, x, OK, "none", 0, <<>>)
                         EXCEPT !.number = n]
       ELSE /\ UNCHANGED <<username, balance, credit_card_number, feed, friends, card_calls>>
            /\ last' = Raised("create_user", r.err, "none")
    /\ UNCHANGED records

AddToBalance(u, x) ==
    LET r == add_to_balance(balance[u], x) IN
    /\ Idle /\ Step
    /\ balance' = [balance EXCEPT ![u] = r.balance]
    /\ last' = Outcome("add_to_balance", u, 0, x, r.err, "none", 0)
    /\ UNCHANGED <<username, credit_card_number, feed, friends, records, card_calls>>

AddCreditCard(u, n) ==
    LET r == add_credit_card(credit_card_number[u], n) IN
    /\ Idle /\ Step
    /\ credit_card_number' = [credit_card_number EXCEPT ![u] = r.card]
    /\ card_calls' = [card_calls EXCEPT ![u] = @ + 1]
    /\ last' = [Call("add_credit_card", u, 0, NoAmount, r.err, "none", 0, <<>>)
                 EXCEPT !.number = n]
    /\ UNCHANGED <<username, balance, feed, friends, records>>

DoPay(u, t, x, note, raises) ==
    LET r == pay(u, t, x, note, raises) IN
    /\ balance' = r.balance
    /\ records' = r.records
    /\ feed' = r.feed
    /\ last' = Outcome("pay", u, t, x, r.err, r.path, r.ret)
    /\ UNCHANGED <<username, credit_card_number, friends, card_calls>>

Pay(u, t, x, note) ==
    /\ Idle /\ Step
    /\ \E raises \in ChargeRaises : DoPay(u, t, x, note, raises)

PayWithBalance(u, t, x, note) ==
    LET r == pay_with_balance(u, t, x, note) IN
    /\ Idle /\ Step
    /\ balance' = r.balance
    /\ records' = r.records
    /\ last' = Outcome("pay_with_balance", u, t, x, r.err, "none", r.ret)
    /\ UNCHANGED <<username, credit_card_number, feed, friends, card_calls>>

PayWithCard(u, t, x, note) ==
    /\ Idle /\ Step
    /\ \E raises \in ChargeRaises :
         LET r == pay_with_card(u, t, x, note, raises) IN
         /\ balance' = r.balance
         /\ records' = r.records
         /\ last' = Outcome("pay_with_card", u, t, x, r.err, "none", r.ret)
    /\ UNCHANGED <<username, credit_card_number, feed, friends, card_calls>>

\* variant of add_friend that links both users
DoAddFriend_Mutual(u, t) ==
    LET id == Len(records) + 1
        f1 == [feed EXCEPT ![u] = Append(@, id)]
        g1 == [friends EXCEPT ![u] = Append(@, t)]
    IN
    /\ friends' = [g1 EXCEPT ![t] = Append(@, u)]
    /\ records' = Append(records, FriendshipLog(u, t, STATUS_ADDED))
    /\ feed' = [f1 EXCEPT ![t] = Append(@, id)]
    /\ last' = Call("add_friend", u, t, NoAmount, OK, "none", id, <<>>)
    /\ UNCHANGED <<username, balance, credit_card_number, card_calls>>

\* add_friend: the friend is appended, one FriendshipLog is created and
\* appended to self.feed and then to new_friend.feed
DoAddFriend(u, t) ==
    LET id == Len(records) + 1
        f1 == [feed EXCEPT ![u] = Append(@, id)]
    IN
    /\ friends' = [friends EXCEPT ![u] = Append(@, t)]
    /\ records' = Append(records, FriendshipLog(u, t, STATUS_ADDED))
    /\ feed' = [f1 EXCEPT ![t] = Append(@, id)]
    /\ last' = Call("add_friend", u, t, NoAmount, OK, "none", id, <<>>)
    /\ UNCHANGED <<username, balance, credit_card_number, card_calls>>

AddFriend(u, t) == Idle /\ Step /\ DoAddFriend(u, t)

DoRetrieveFeed(u) ==
    /\ last' = Call("retrieve_feed", u, 0, NoAmount, OK, "none", 0, retrieve_feed(u))
    /\ UNCHANGED <<username, balance, credit_card_number, feed, friends, records, card_calls>>

RetrieveFeed(u) == Idle /\ Step /\ DoRetrieveFeed(u)

\* ------------------------------------------------------- MiniVenmo.run
\* The demo: a fresh MiniVenmo, bobby and carol created, two payments
\* inside one try block, bobby's feed rendered, bobby.add_friend(carol).
bobby == 1
carol == 2

RunUnchanged == UNCHANGED <<nops, processor, threads, overlapped, start_balance>>

RunCreateBobby ==
    /\ run_pc = "idle" /\ nops = 0 /\ Len(username) = 0
    /\ DoCreateUser(Name("Bobby", Word(5)), Float(5), "4111111111111111")
    /\ run_pc' = IF last'.result = OK THEN "carol" ELSE "aborted"
    /\ RunUnchanged

RunCreateCarol ==
    /\ run_pc = "carol"
    /\ DoCreateUser(Name("Carol", Word(5)), Float(10), "4242424242424242")
    /\ run_pc' = IF last'.result = OK THEN "pay1" ELSE "aborted"
    /\ RunUnchanged

RunPayCoffee ==
    /\ run_pc = "pay1"
    /\ DoPay(bobby, carol, Float(5), "Coffee", FALSE)
    /\ run_pc' = IF last'.result = OK THEN "pay2" ELSE "feed"
    /\ RunUnchanged

RunPayLunch ==
    /\ run_pc = "pay2"
    /\ DoPay(carol, bobby, Float(15), "Lunch", FALSE)
    /\ run_pc' = "feed"
    /\ RunUnchanged

RunRenderFeed ==
    /\ run_pc = "feed"
    /\ DoRetrieveFeed(bobby)
    /\ run_pc' = "friend"
    /\ RunUnchanged

RunAddFriend ==
    /\ run_pc = "friend"
    /\ DoAddFriend(bobby, carol)
    /\ run_pc' = "done"
    /\ RunUnchanged

Run ==
    \/ RunCreateBobby
    \/ RunCreateCarol
    \/ RunPayCoffee
    \/ RunPayLunch
    \/ RunRenderFeed
    \/ RunAddFriend

Next ==
    \/ \E name \in UsernameArgs : NewUser(name)
    \/ \E u \in Users, x \in AmountArgs : AddToBalance(u, x)
    \/ \E u \in Users, n \in CardArgs : AddCreditCard(u, n)
    \/ \E u \in Users, t \in Users, x \in AmountArgs, note \in NoteArgs : Pay(u, t, x, note)
    \/ \E u \in Users, t \in Users, x \in AmountArgs, note \in NoteArgs : PayWithBalance(u, t, x, note)
    \/ \E u \in Users, t \in Users, x \in AmountArgs, note \in NoteArgs : PayWithCard(u, t, x, note)
    \/ \E u \in Users, t \in Users : AddFriend(u, t)
    \/ \E u \in Users : RetrieveFeed(u)
    \/ Run

Spec == Init /\ [][Next]_vars

\* the same program with a card processor that may fail
InitFaulty ==
    /\ username = <<>>
    /\ balance = <<>>
    /\ credit_card_number = <<>>
    /\ feed = <<>>
    /\ friends = <<>>
    /\ records = <<>>
    /\ last = Call("init", 0, 0, NoAmount, OK, "none", 0, <<>>)
    /\ card_calls = <<>>
    /\ nops = 0
    /\ run_pc = "idle"
    /\ processor = "faulty"
    /\ threads = <<>>
    /\ overlapped = FALSE
    /\ start_balance = <<>>

SpecFaulty == InitFaulty /\ [][Next]_vars

\* ================================================================ claims
Amount(c) == float(c.amount).val

\* ---------------------------------------------------------------- C1
\* C1: after any sequence of operations, successful or failed, every
\* user's balance is >= 0.
C1_BalanceNonNegative == \A u \in Users : balance[u] >= 0

\* a balance-path payment of the whole balance has left the payer at 0
C1_Witness ==
    /\ last.op = "pay_with_balance" /\ last.result = OK
    /\ balance[last.self] = 0
    /\ balance[last.target] > 0

\* ---------------------------------------------------------------- C2
\* C2: a successful pay_with_balance (called directly, or by pay on its
\* balance path) debits the actor by amount, credits the target by amount,
\* keeps the sum of the two balances and changes no other user's balance.
C2_Step ==
    LET c == last'
        u == c.self
        t == c.target
        a == Amount(c)
    IN  (/\ c.result = OK
         /\ \/ c.op = "pay_with_balance"
            \/ c.op = "pay" /\ c.path = "balance")
        => /\ balance'[u] = balance[u] - a
           /\ balance'[t] = balance[t] + a
           /\ balance'[u] + balance'[t] = balance[u] + balance[t]
           /\ \A w \in Users \ {u, t} : balance'[w] = balance[w]
           /\ Len(balance') = Len(balance)

C2_BalancePathConservative == [][C2_Step]_vars

\* a direct balance payment between two of three users, the payer keeping
\* part of its balance
C2_Witness ==
    /\ last.op = "pay_with_balance" /\ last.result = OK
    /\ Len(username) = 3
    /\ balance[last.self] > 0

\* ---------------------------------------------------------------- C3
\* C3: a successful pay_with_card (called directly, or by pay on its card
\* path) leaves the actor's balance as it was, credits the target by
\* amount and changes no other user's balance.
C3_Step ==
    LET c == last'
        u == c.self
        t == c.target
        a == Amount(c)
    IN  (/\ c.result = OK
         /\ \/ c.op = "pay_with_card"
            \/ c.op = "pay" /\ c.path = "card")
        => /\ balance'[u] = balance[u]
           /\ balance'[t] = balance[t] + a
           /\ \A w \in Users \ {u, t} : balance'[w] = balance[w]
           /\ Len(balance') = Len(balance)

C3_CardPathFrame == [][C3_Step]_vars

\* a direct card payment by an actor whose balance would have covered it
C3_Witness ==
    /\ last.op = "pay_with_card" /\ last.result = OK
    /\ balance[last.self] >= Amount(last)

\* ---------------------------------------------------------------- C4
\* C4: in every reachable state, a pay call with a positive amount takes
\* the balance path iff the payer's balance is >= amount, and the card
\* path otherwise; its outcome is the outcome of that path alone.  On
\* success the payer is debited the whole amount (balance path; to exactly
\* 0 when balance = amount) or nothing (card path): there is no split.
\* On failure the error is one that the path taken raises.
C4_Call(u, t, x, note, raises) ==
    LET r == pay(u, t, x, note, raises)
        a == float(x).val
    IN  (float(x).err = OK /\ a > 0)
        => /\ r.path \in {"balance", "card"}
           /\ r.path = "balance" <=> balance[u] >= a
           /\ r.path = "balance"
                => r.balance = pay_with_balance(u, t, Float(a), note).balance
           /\ r.path = "card"
                => r.balance = pay_with_card(u, t, Float(a), note, raises).balance
           /\ r.err = OK /\ r.path = "balance"
                => r.balance[u] = balance[u] - a /\ r.balance[u] >= 0
           /\ r.err = OK /\ r.path = "balance" /\ balance[u] = a
                => r.balance[u] = 0
           /\ r.err = OK /\ r.path = "card" => r.balance[u] = balance[u]
           /\ r.err = OK => r.balance[t] = balance[t] + a
           /\ r.err # OK /\ r.path = "balance" => r.err = SAME_USER_ERROR
           /\ r.err # OK /\ r.path = "card"
                => r.err \in {SAME_USER_ERROR, NO_CREDIT_CARD_ERROR, CHARGE_ERROR}

C4_PayRouting ==
    \A u \in Users, t \in Users, x \in AmountArgs, note \in NoteArgs,
       raises \in ChargeRaises : C4_Call(u, t, x, note, raises)

\* a payer with a positive balance below the amount paid by card and kept
\* its balance
C4_Witness ==
    /\ last.op = "pay" /\ last.result = OK /\ last.path = "card"
    /\ balance[last.self] > 0
    /\ balance[last.self] < Amount(last)

\* ---------------------------------------------------------------- C5
\* C5: in the demo scenario (MiniVenmo.run) the second payment, Carol pays
\* Bobby 15.00, resolves by the card path, so that afterwards Carol's
\* balance is still 15.00 and Bobby's balance is 15.00.
C5_DemoSecondPaymentByCard ==
    /\ run_pc = "feed" /\ last.op = "pay" /\ last.self = carol
         => last.result = OK /\ last.path = "card"
    /\ run_pc \in {"feed", "friend", "done"}
         => balance[bobby] = 15 /\ balance[carol] = 15

\* ---------------------------------------------------------------- C6
\* C6: a call of pay, pay_with_balance, pay_with_card, add_to_balance or
\* add_credit_card that ends in an error leaves every user's balance,
\* credit card, feed and friend list, and the set of users, unchanged.
IsError(c) == c.result # OK

C6_Step ==
    (/\ last'.op \in {"pay", "pay_with_balance", "pay_with_card",
                      "add_to_balance", "add_credit_card"}
     /\ IsError(last'))
    => UNCHANGED <<username, balance, credit_card_number, feed, friends>>

C6_ErrorsChangeNothing == [][C6_Step]_vars

\* a card charge has failed for a payer on the card path, with a balance
\* and a feed entry on record
C6_Witness ==
    /\ last.op = "pay" /\ last.result = CHARGE_ERROR /\ last.path = "card"
    /\ \E u \in Users : balance[u] > 0
    /\ Len(records) > 0

\* ---------------------------------------------------------------- C7
\* C7: a successful pay creates exactly one Payment record, appends it as
\* the last entry of the payer's feed and of the payee's feed, changes no
\* other feed, and returns it.
C7_Step ==
    LET c == last'
        u == c.self
        t == c.target
        id == Len(records) + 1
    IN  (c.op = "pay" /\ c.result = OK)
        => /\ records' = Append(records, Payment(Amount(c), u, t, records'[id].note))
           /\ c.ret = id
           /\ feed'[u] = Append(feed[u], id)
           /\ feed'[t] = Append(feed[t], id)
           /\ \A w \in Users \ {u, t} : feed'[w] = feed[w]
           /\ Len(feed') = Len(feed)

C7_PayAppendsToBothFeeds == [][C7_Step]_vars

\* a payment appended behind earlier entries of the payer's feed
C7_Witness ==
    /\ last.op = "pay" /\ last.result = OK
    /\ Len(feed[last.self]) >= 2
    /\ feed[last.self][Len(feed[last.self])] = last.ret
    /\ feed[last.target][Len(feed[last.target])] = last.ret

\* ---------------------------------------------------------------- C8
\* C8: feeds are append-only and chronological: across every operation
\* each user's feed before is a prefix of the feed after, no record is
\* altered, a feed lists its records in the order they were created, and
\* retrieve_feed returns the messages in feed order and changes no state.
IsPrefix(p, q) == Len(p) <= Len(q) /\ SubSeq(q, 1, Len(p)) = p

InCreationOrder(f) == \A i \in 1..Len(f), j \in 1..Len(f) : i < j => f[i] <= f[j]

C8_Step ==
    /\ \A u \in Users : IsPrefix(feed[u], feed'[u])
    /\ IsPrefix(records, records')
    /\ IsPrefix(username, username')
    /\ \A u \in 1..Len(feed') : InCreationOrder(feed'[u])
    /\ last'.op = "retrieve_feed"
         => /\ UNCHANGED <<username, balance, credit_card_number, feed, friends, records>>
            /\ Len(last'.out) = Len(feed[last'.self])
            /\ \A i \in 1..Len(last'.out) :
                 last'.out[i] = get_feed_msg(records[feed[last'.self][i]])

C8_FeedAppendOnly == [][C8_Step]_vars

\* the demo has retrieved Bobby's feed: the two payments, in order
C8_Witness ==
    /\ last.op = "retrieve_feed"
    /\ last.out = <<"Bobby paid Carol $5.00 for Coffee",
                    "Carol paid Bobby $15.00 for Lunch">>

\* ---------------------------------------------------------------- C9
\* C9: after any sequence of operations every Payment record produced by
\* a successful pay, pay_with_balance or pay_with_card call is an entry of
\* its actor's feed and of its target's feed, and every FriendshipLog is
\* an entry of both participants' feeds.
InFeed(u, id) == \E i \in 1..Len(feed[u]) : feed[u][i] = id

C9_FeedHoldsEveryEvent ==
    \A id \in 1..Len(records) :
        IF records[id].cls = "Payment"
        THEN InFeed(records[id].actor, id) /\ InFeed(records[id].target, id)
        ELSE InFeed(records[id].user1, id) /\ InFeed(records[id].user2, id)

\* ---------------------------------------------------------------- C10
\* C10 as stated: on any user every add_credit_card call other than the
\* first made on that user fails with the multiple-cards error.
C10_EveryLaterCallFails ==
    (last.op = "add_credit_card" /\ card_calls[last.self] >= 2)
    => last.result = MULTIPLE_CREDIT_CARDS_ERROR

\* C10 as amended: every add_credit_card call on a user that already has
\* a card fails with the multiple-cards error, whether or not the new
\* number is whitelisted, and leaves the card as it is; a card once
\* registered is never replaced or removed.
C10_Step ==
    /\ \A u \in Users :
         credit_card_number[u] # None
         => credit_card_number'[u] = credit_card_number[u]
    /\ (last'.op = "add_credit_card" /\ credit_card_number[last'.self] # None)
         => last'.result = MULTIPLE_CREDIT_CARDS_ERROR
    /\ (last'.op = "add_credit_card" /\ credit_card_number[last'.self] = None)
         => (last'.result = OK <=> _is_valid_credit_card(last'.number))

C10_OneCardOnceRegistered == [][C10_Step]_vars

\* a second, whitelisted and different, number was refused
C10_Witness ==
    /\ last.op = "add_credit_card"
    /\ last.result = MULTIPLE_CREDIT_CARDS_ERROR
    /\ _is_valid_credit_card(last.number)
    /\ last.number # credit_card_number[last.self]

\* ---------------------------------------------------------------- C11
\* C11: in every reachable state a self-payment u.pay(u, amount, note)
\* with a positive amount fails with the same-user error and changes
\* nothing, whatever u's balance and whether or not u has a card on file.
C11_SelfPaymentFails ==
    \A u \in Users, x \in AmountArgs, note \in NoteArgs, raises \in ChargeRaises :
        LET r == pay(u, u, x, note, raises) IN
        (float(x).err = OK /\ float(x).val > 0)
        => /\ r.err = SAME_USER_ERROR
           /\ r.balance = balance
           /\ r.feed = feed
           /\ r.records = records

\* the only user there is, holding a balance and a card, has tried to pay
\* and got the same-user error
C11_Witness ==
    /\ Len(username) = 1
    /\ last.op = "pay" /\ last.result = SAME_USER_ERROR
    /\ balance[1] > 0
    /\ credit_card_number[1] # None

\* ---------------------------------------------------------------- C12
\* C12: add_to_balance(amount) raises and leaves the balance as it is for
\* every amount <= 0 and every non-numeric amount; for every amount > 0 it
\* returns and the user's balance has grown by exactly that amount, while
\* other users' balances, cards, feeds and friends are unchanged.
C12_Step ==
    /\ \A u \in Users, x \in AmountArgs :
         LET r == add_to_balance(balance[u], x)
             f == float(x)
         IN  /\ (f.err # OK \/ f.val <= 0) => r.err # OK /\ r.balance = balance[u]
             /\ (f.err = OK /\ f.val > 0)
                  => r.err = OK /\ r.balance = balance[u] + f.val
    /\ last'.op = "add_to_balance"
         => /\ UNCHANGED <<username, credit_card_number, feed, friends, records>>
            /\ \A w \in Users \ {last'.self} : balance'[w] = balance[w]
            /\ Len(balance') = Len(balance)
            /\ last'.result = OK
                 => /\ Amount(last') > 0
                    /\ balance'[last'.self] = balance[last'.self] + Amount(last')
                    /\ balance'[last'.self] > balance[last'.self]
            /\ last'.result # OK => balance' = balance

C12_AddToBalance == [][C12_Step]_vars

\* the str "5.0" has been added to a balance that was already positive
C12_Witness ==
    /\ last.op = "add_to_balance" /\ last.result = OK
    /\ last.amount.kind = "str"
    /\ balance[last.self] > Amount(last)
    /\ Len(username) >= 2

\* ---------------------------------------------------------------- C13
\* C13: a.add_friend(b) appends b to a's friend list and to no other list,
\* creates one FriendshipLog with status "added" for (a, b), leaves that
\* log as the trailing entry of a's feed and of b's feed, and changes no
\* balance and no credit card.
C13_Step ==
    LET c == last'
        a == c.self
        b == c.target
        id == Len(records) + 1
    IN  c.op = "add_friend"
        => /\ c.result = OK
           /\ friends' = [friends EXCEPT ![a] = Append(@, b)]
           /\ a # b => friends'[b] = friends[b]
           /\ records' = Append(records, FriendshipLog(a, b, STATUS_ADDED))
           /\ records'[id].status = "added"
           /\ feed'[a][Len(feed'[a])] = id
           /\ feed'[b][Len(feed'[b])] = id
           /\ a # b => /\ feed'[a] = Append(feed[a], id)
                       /\ feed'[b] = Append(feed[b], id)
           /\ \A w \in Users \ {a, b} : feed'[w] = feed[w]
           /\ UNCHANGED <<username, balance, credit_card_number>>

C13_AddFriendOneDirectional == [][C13_Step]_vars

\* the demo's bobby.add_friend(carol): Carol is in Bobby's list, Bobby is
\* not in Carol's, and both feeds end with the same log
C13_Witness ==
    /\ run_pc = "done"
    /\ friends[bobby] = <<carol>>
    /\ friends[carol] = <<>>
    /\ feed[bobby][Len(feed[bobby])] = feed[carol][Len(feed[carol])]
    /\ get_feed_msg(records[feed[carol][Len(feed[carol])]])
         = "Bobby added Carol as a friend."

\* ---------------------------------------------------------------- C14
\* C14: every Payment record ever created has amount > 0 and an actor
\* different from its target (as objects and by username).
C14_PaymentsWellFormed ==
    \A id \in 1..Len(records) :
        records[id].cls = "Payment"
        => /\ records[id].amount > 0
           /\ records[id].actor # records[id].target
           /\ username[records[id].actor] # username[records[id].target]

\* payments made by pay, by pay_with_balance and by pay_with_card exist
C14_Witness ==
    /\ Len(records) >= 2
    /\ \A id \in 1..Len(records) : records[id].cls = "Payment"
    /\ \E id \in 1..Len(records) : ~InFeed(records[id].actor, id)
    /\ \E id \in 1..Len(records) : InFeed(records[id].actor, id)

\* ---------------------------------------------------------------- C15
\* C15: no two distinct users share a username, and a user's username
\* never changes after construction.
C15_UsernamesUnique ==
    \A u \in Users, v \in Users : u # v => username[u] # username[v]

\* ---------------------------------------------------------------- C16
\* C16 as stated: pay and pay_with_card never fail with the
\* insufficient-balance error, and a pay by a payer whose balance is below
\* the (positive) amount ends in success or in the no-credit-card error.
C16_Calls(allowed) ==
    \A u \in Users, t \in Users, x \in AmountArgs, note \in NoteArgs,
       raises \in ChargeRaises :
        LET p == pay(u, t, x, note, raises)
            c == pay_with_card(u, t, x, note, raises)
            f == float(x)
        IN  /\ p.err # INSUFFICIENT_BALANCE_ERROR
            /\ c.err # INSUFFICIENT_BALANCE_ERROR
            /\ (f.err = OK /\ f.val > 0 /\ balance[u] < f.val)
                 => p.path = "card" /\ p.err \in allowed

C16_CardPathSucceedsOrNoCard == C16_Calls({OK, NO_CREDIT_CARD_ERROR})

\* C16 as amended: pay and pay_with_card never fail with the
\* insufficient-balance error; a pay by a payer whose balance is below the
\* amount takes the card path and ends in success, in the same-user error
\* or in the no-credit-card error.
C16_NoInsufficientBalanceFromPay ==
    /\ C16_Calls({OK, SAME_USER_ERROR, NO_CREDIT_CARD_ERROR})
    /\ last.op \in {"pay", "pay_with_card"}
         => last.result # INSUFFICIENT_BALANCE_ERROR

\* a payer short of the amount and without a card has been refused by pay
\* on the card path
C16_Witness ==
    /\ last.op = "pay" /\ last.result = NO_CREDIT_CARD_ERROR
    /\ last.path = "card"
    /\ \E u \in Users : balance[u] > 0 /\ credit_card_number[u] = None

\* ---------------------------------------------------------------- C17
\* C17: validation is sequenced.  pay_with_balance reports same-user
\* before invalid amount before insufficient balance; pay_with_card
\* reports same-user before invalid amount before no credit card; pay
\* reports a non-positive amount before any same-user, balance or card
\* check.
C17_ValidationOrder ==
    \A u \in Users, t \in Users, x \in AmountArgs, note \in NoteArgs,
       raises \in ChargeRaises :
        LET b == pay_with_balance(u, t, x, note)
            c == pay_with_card(u, t, x, note, raises)
            p == pay(u, t, x, note, raises)
            f == float(x)
            same == username[u] = username[t]
        IN  /\ same => b.err = SAME_USER_ERROR
            /\ (~same /\ x.kind = "float" /\ x.val <= 0)
                 => b.err = INVALID_AMOUNT_ERROR
            /\ (~same /\ x.kind = "float" /\ x.val > 0 /\ balance[u] < x.val)
                 => b.err = INSUFFICIENT_BALANCE_ERROR
            /\ (f.err = OK /\ same) => c.err = SAME_USER_ERROR
            /\ (f.err = OK /\ ~same /\ f.val <= 0)
                 => c.err = INVALID_AMOUNT_ERROR
            /\ (f.err = OK /\ ~same /\ f.val > 0 /\ credit_card_number[u] = None)
                 => c.err = NO_CREDIT_CARD_ERROR
            /\ (f.err = OK /\ f.val <= 0) => p.err = INVALID_AMOUNT_ERROR

\* the only user there is, with an empty balance, called pay_with_balance:
\* the users are the same and the amount is invalid or not covered, and
\* the same-user error was reported
C17_Witness ==
    /\ Len(username) = 1
    /\ balance[1] = 0
    /\ last.op = "pay_with_balance" /\ last.result = SAME_USER_ERROR

\* ---------------------------------------------------------------- C19
\* C19: the sum of all users' balances never decreases; it grows by
\* exactly amount on each successful add_to_balance (create_user's
\* included) and each successful card-path payment, and is unchanged by
\* every balance-path payment, add_friend, add_credit_card, retrieve_feed,
\* User construction and every failed call.
RECURSIVE SumSeq(_)
SumSeq(b) == IF b = <<>> THEN 0 ELSE b[1] + SumSeq(Tail(b))

C19_Grows(c) ==
    /\ c.result = OK
    /\ \/ c.op \in {"add_to_balance", "create_user", "pay_with_card"}
       \/ c.op = "pay" /\ c.path = "card"

C19_Step ==
    /\ SumSeq(balance') >= SumSeq(balance)
    /\ C19_Grows(last') => SumSeq(balance') = SumSeq(balance) + Amount(last')
    /\ ~C19_Grows(last') => SumSeq(balance') = SumSeq(balance)

C19_MoneyNeverDestroyed == [][C19_Step]_vars

\* a balance-path payment has been made after money had entered by
\* add_to_balance and by a card-path payment
C19_Witness ==
    /\ last.op = "pay" /\ last.path = "balance" /\ last.result = OK
    /\ SumSeq(balance) >= 10
    /\ Len(records) >= 2

\* ---------------------------------------------------------------- C20
\* C20: after any sequence of pay and add_friend calls, with any caller
\* and argument, a user naming itself included, each feed entry occurs at
\* most once in any single user's feed.
C20_FeedEntriesOnce ==
    \A u \in Users : \A i \in 1..Len(feed[u]), j \in 1..Len(feed[u]) :
        i # j => feed[u][i] # feed[u][j]

\* ------------------------------------------------- pay_with_balance, threaded
\* Two users with balances, and NumThreads threads that each call
\* pay_with_balance(target, amount) on one of them for the other, with a
\* positive float amount.  Nothing in the source takes a lock, so the
\* threads' steps interleave freely.  A thread's steps:
\*   "check"        lines 134-141  the tests; raises or goes on
\*   "load"         line 143       reads self.balance
\*   "store"        line 143       writes self.balance = read value - amount
\*   "credit_load"  lines 144-145, 81-84  Payment created; add_to_balance
\*                                 validates and reads target.balance
\*   "credit_store" line 84        writes target.balance = read value + amount
ThreadAmounts == {5, 10}
ThreadBalances == {0, 5, 10}

Thread(u, t, a) == [pc |-> "check", self |-> u, target |-> t, amount |-> a, reg |-> 0]

InitThreads ==
    /\ username = <<"Bobby", "Carol">>
    /\ balance \in [1..2 -> ThreadBalances]
    /\ start_balance = balance
    /\ credit_card_number = <<None, None>>
    /\ feed = <<<<>>, <<>>>>
    /\ friends = <<<<>>, <<>>>>
    /\ records = <<>>
    /\ last = Call("init", 0, 0, NoAmount, OK, "none", 0, <<>>)
    /\ card_calls = <<0, 0>>
    /\ nops = 0
    /\ run_pc = "idle"
    /\ processor = "stub"
    /\ threads \in [1..NumThreads ->
                      {Thread(u, t, a) : u \in 1..2, t \in 1..2, a \in ThreadAmounts}]
    /\ \A p \in 1..NumThreads : threads[p].self # threads[p].target
    /\ overlapped = FALSE

InSection(th) == th.pc \in {"load", "store", "credit_load", "credit_store"}

ThreadUnchanged ==
    UNCHANGED <<username, credit_card_number, feed, friends, last, card_calls,
                nops, run_pc, processor, start_balance>>

ThreadCheck(p) ==
    LET th == threads[p] IN
    /\ th.pc = "check"
    /\ IF \/ username[th.self] = username[th.target]
          \/ NotPositive(th.amount)
          \/ BalanceShort(balance[th.self], th.amount)
       THEN /\ threads' = [threads EXCEPT ![p].pc = "raised"]
            /\ UNCHANGED overlapped
       ELSE /\ threads' = [threads EXCEPT ![p].pc = "load"]
            /\ overlapped' = (overlapped \/ \E q \in 1..NumThreads :
                                               q # p /\ InSection(threads[q]))
    /\ UNCHANGED <<balance, records>>
    /\ ThreadUnchanged

ThreadLoad(p) ==
    LET th == threads[p] IN
    /\ th.pc = "load"
    /\ threads' = [threads EXCEPT ![p].pc = "store", ![p].reg = balance[th.self]]
    /\ UNCHANGED <<balance, records, overlapped>>
    /\ ThreadUnchanged

ThreadStore(p) ==
    LET th == threads[p] IN
    /\ th.pc = "store"
    /\ balance' = [balance EXCEPT ![th.self] = Debit(th.reg, th.amount)]
    /\ threads' = [threads EXCEPT ![p].pc = "credit_load"]
    /\ UNCHANGED <<records, overlapped>>
    /\ ThreadUnchanged

ThreadCreditLoad(p) ==
    LET th == threads[p] IN
    /\ th.pc = "credit_load"
    /\ records' = Append(records, Payment(th.amount, th.self, th.target, "Coffee"))
    /\ IF NotPositive(th.amount)
       THEN threads' = [threads EXCEPT ![p].pc = "raised"]
       ELSE threads' = [threads EXCEPT ![p].pc = "credit_store",
                                       ![p].reg = balance[th.target]]
    /\ UNCHANGED <<balance, overlapped>>
    /\ ThreadUnchanged

ThreadCreditStore(p) ==
    LET th == threads[p] IN
    /\ th.pc = "credit_store"
    /\ balance' = [balance EXCEPT ![th.target] = th.reg + th.amount]
    /\ threads' = [threads EXCEPT ![p].pc = "done"]
    /\ UNCHANGED <<records, overlapped>>
    /\ ThreadUnchanged

NextThreads ==
    \E p \in 1..NumThreads :
        \/ ThreadCheck(p)
        \/ ThreadLoad(p)
        \/ ThreadStore(p)
        \/ ThreadCreditLoad(p)
        \/ ThreadCreditStore(p)

SpecThreads == InitThreads /\ [][NextThreads]_vars

\* ---------------------------------------------------------------- C18
\* C18: with the balance test, the debit and the credit of concurrent
\* payments as separate steps and no mutual exclusion, some interleaving
\* drives a payer's balance below 0 or loses an update (the witness);
\* whenever no two payments' test-debit-credit sections overlap, that is
\* each runs as one critical section, every balance stays >= 0 and, once
\* all payments have ended, every balance is its starting value minus the
\* debits plus the credits of the payments made.
RECURSIVE Moved(_, _)
Moved(u, p) ==
    IF p = 0 THEN 0
    ELSE Moved(u, p - 1)
         + (IF threads[p].pc = "done" /\ threads[p].target = u
            THEN threads[p].amount ELSE 0)
         - (IF threads[p].pc = "done" /\ threads[p].self = u
            THEN threads[p].amount ELSE 0)

AllEnded == \A p \in 1..NumThreads : threads[p].pc \in {"done", "raised"}

NoUpdateLost ==
    \A u \in Users : balance[u] = start_balance[u] + Moved(u, NumThreads)

C18_CriticalSectionIsSafe ==
    ~overlapped
    => /\ \A u \in Users : balance[u] >= 0
       /\ AllEnded => NoUpdateLost

\* two overlapping payments by the same payer have both passed the balance
\* test and driven the payer's balance below 0
C18_Witness ==
    /\ overlapped
    /\ AllEnded
    /\ \E u \in Users : balance[u] < 0

====
